---- MODULE Spec2Model ----
(***************************************************************************)
(* Model of dso-audio-metadata-remover (src/main.py).                      *)
(*                                                                         *)
(* One invocation of main() parses the arguments, calls remove_metadata()  *)
(* and ends the process with "Metadata removal complete." (exit 0) or      *)
(* "Error: <message>" (exit 1).  The file system persists between          *)
(* invocations, so the model strings invocations together over one disk.   *)
(*                                                                         *)
(* The tag library (mutagen) is an external collaborator.  It is modelled  *)
(* by the capability main.py uses: load a file into a key-enumerable tag   *)
(* container, delete a key (KeyError when the key is absent), save the     *)
(* container to a path, delete an ID3 block in place.  Each call that the  *)
(* source wraps in "except Exception" may also fail.                       *)
(***************************************************************************)
EXTENDS Naturals, Sequences, FiniteSets, TLC

\* ---------------------------------------------------------------- bounds
\* Number of invocations of main() strung together over the same disk.
MaxRuns == 2
\* Longest enumeration audio.keys() may return.
MaxListLen == 3

\* ------------------------------------------------------------ characters
UpperChars == <<"A","B","C","D","E","F","G","H","I","J","K","L","M",
                "N","O","P","Q","R","S","T","U","V","W","X","Y","Z">>
LowerChars == <<"a","b","c","d","e","f","g","h","i","j","k","l","m",
                "n","o","p","q","r","s","t","u","v","w","x","y","z">>

\* str.lower() on one character.
LowerChar(c) ==
    IF \E i \in 1..Len(UpperChars) : UpperChars[i] = c
    THEN LowerChars[CHOOSE i \in 1..Len(UpperChars) : UpperChars[i] = c]
    ELSE c

\* str.lower(): every character lowered, length and order kept.
Lower(s) == [i \in 1..Len(s) |-> LowerChar(s[i])]

\* str.endswith(suf).
EndsWith(s, suf) ==
    /\ Len(s) >= Len(suf)
    /\ SubSeq(s, Len(s) - Len(suf) + 1, Len(s)) = suf

\* The three suffixes remove_metadata tests, in the order it tests them.
SuffixMp3  == <<".", "m", "p", "3">>
SuffixFlac == <<".", "f", "l", "a", "c">>
SuffixWav  == <<".", "w", "a", "v">>

\* A mutation of Classify: the dot is left out of the suffixes.
ClassifyNoDot(path) ==
    IF EndsWith(Lower(path), Tail(SuffixMp3)) THEN "mp3"
    ELSE IF EndsWith(Lower(path), Tail(SuffixFlac)) THEN "flac"
    ELSE IF EndsWith(Lower(path), Tail(SuffixWav)) THEN "wav"
    ELSE "unsupported"

\* The if/elif/else chain on input_file.lower().endswith(...).
Classify(path) ==
    IF EndsWith(Lower(path), SuffixMp3) THEN "mp3"
    ELSE IF EndsWith(Lower(path), SuffixFlac) THEN "flac"
    ELSE IF EndsWith(Lower(path), SuffixWav) THEN "wav"
    ELSE "unsupported"

\* ------------------------------------------------------- inputs and disk
\* Paths the command line may name (input_file, --output_file).
PathMp3   == <<"a", ".", "M", "p", "3">>
PathFlac  == <<"b", ".", "f", "l", "a", "c">>
PathWav   == <<"c", ".", "W", "A", "V">>
PathOgg   == <<"d", ".", "o", "g", "g">>
PathNoDot == <<"m", "p", "3">>
Paths == {PathMp3, PathFlac, PathWav, PathOgg, PathNoDot}
\* Paths --output_file is given in the model: the MP3 path (the input
\* itself, or a file of another format), the FLAC path, an unsupported one.
OutPaths == {PathMp3, PathFlac, PathOgg}

\* output_file=None.
NoPath == <<>>

\* Tag names.
Keys == {"title", "album"}

\* keep_tags=None, and keep_tags=[...] as the set its membership test sees.
KeepNone == [some |-> FALSE, tags |-> {}]
KeepSome(S) == [some |-> TRUE, tags |-> S]
\* args.keep: absent, or one or more names (nargs='+').
KeepArgs == {KeepNone} \cup {KeepSome(S) : S \in (SUBSET Keys) \ {{}}}

\* What a path holds: nothing, or a file with or without a tag block
\* (the ID3 header of an MP3, the ID3 block of a WAV) and its tag names.
NoFile == [exists |-> FALSE, hdr |-> FALSE, tags |-> {}]
File(h, T) == [exists |-> TRUE, hdr |-> h, tags |-> T]
Files == {File(TRUE, T) : T \in SUBSET Keys} \cup {File(FALSE, {})}

Range(s) == {s[i] : i \in 1..Len(s)}

\* Every list audio.keys() may return for a container with key set S: the
\* keys in any order; how often the library lists a key is its own affair.
Enumerations(S) ==
    UNION {{s \in [1..n -> S] : Range(s) = S} : n \in Cardinality(S)..MaxListLen}

VARIABLES
    disk,            \* path -> what the path holds
    runs,            \* invocations finished so far
    prev,            \* what the previous invocation left behind
    pc,              \* where the current invocation stands
    args_output_file,  \* args.output_file as main parsed it
    input_file, output_file, keep_tags,   \* remove_metadata's parameters
    file_type,       \* remove_metadata's file_type
    audio,           \* key set of the loaded tag container
    tags_to_remove,  \* remove_metadata's tags_to_remove
    idx,             \* position of the delete loop in tags_to_remove
    exit_code,       \* exit status of the process: 0 unless sys.exit(1) ran
    stdout,          \* what main printed
    log,             \* logging calls made in this invocation
    failed,          \* the exception that ended the invocation, or "none"
    snap,            \* disk when the invocation began
    opened,          \* paths the invocation handed to the library to load
    saved,           \* paths audio.save was called with, in order
    attempted,       \* tags "del audio[tag]" was executed for, in order
    missing          \* tags whose deletion raised KeyError

vars == <<disk, runs, prev, pc, args_output_file, input_file, output_file, keep_tags, file_type,
          audio, tags_to_remove, idx, exit_code, stdout, log, failed, snap,
          opened, saved, attempted, missing>>

args == <<args_output_file, input_file, output_file, keep_tags>>
hist == <<snap, opened, saved, attempted, missing>>

NoPrev == [ok |-> FALSE, res |-> NoPath]

\* Which paths hold no file when the first invocation starts: none, or
\* any one of them.
Absent == {{}} \cup {{p} : p \in Paths}

Init ==
    /\ \E c \in Files, gone \in Absent :
          disk = [p \in Paths |-> IF p \in gone THEN NoFile ELSE c]
    /\ runs = 0
    /\ prev = NoPrev
    /\ pc = "idle"
    /\ args_output_file = NoPath
    /\ input_file = NoPath /\ output_file = NoPath /\ keep_tags = KeepNone
    /\ file_type = "none"
    /\ audio = {}
    /\ tags_to_remove = <<>>
    /\ idx = 1
    /\ exit_code = 0
    /\ stdout = "" /\ log = {} /\ failed = "none"
    /\ snap = disk
    /\ opened = {} /\ saved = <<>> /\ attempted = <<>> /\ missing = {}

\* ------------------------------------------------ remove_metadata, main
\* A mutation of NoHeaderSkip: the missing header is not caught.
NoHeaderSkipNever(ft, f) == FALSE

\* "except ID3NoHeaderError: ... return" around the MP3 load.
NoHeaderSkip(ft, f) == ft = "mp3" /\ ~f.hdr

\* A mutation of DefaultOutput: the given output path is dropped.
DefaultOutputIgnored(o, i) == i

\* "if output_file is None: output_file = input_file".
DefaultOutput(o, i) == IF o = NoPath THEN i ELSE o

\* "if keep_tags:" -- None and the empty list are both false.
KeepGiven(k) == k.some /\ k.tags # {}

\* A mutation of TagsToRemove: the keep-list is ignored.
TagsToRemoveIgnoresKeep(ks, k) == ks

\* A mutation of TagsToRemove: without a keep-list nothing is removed.
TagsToRemoveInverted(ks, k) ==
    IF KeepGiven(k)
    THEN SelectSeq(ks, LAMBDA tag : tag \notin k.tags)
    ELSE <<>>

\* tags_to_remove, from the list ks that audio.keys() returned.
TagsToRemove(ks, k) ==
    IF KeepGiven(k)
    THEN SelectSeq(ks, LAMBDA tag : tag \notin k.tags)
    ELSE ks

\* Mutations of Raises: every handler swallows, every handler re-raises.
RaisesNever(e) == FALSE
RaisesAlways(e) == TRUE

\* Does the handler of exception e in the delete loop re-raise it?
\* "except KeyError" warns and goes on; "except Exception" logs and raises.
Raises(e) == e # "KeyError"

\* A mutation of SaveNeeded: the save is not guarded by the format.
SaveNeededAlways(ft) == TRUE

\* "if file_type != 'wav':" -- the formats audio.save is called for.
SaveNeeded(ft) == ft # "wav"

\* What audio.save leaves at the path: the container's keys.  Whether a
\* container without keys is written as an empty block or as no block at
\* all is the library's choice.
Written(A) == IF A = {} THEN {File(TRUE, {}), File(FALSE, {})} ELSE {File(TRUE, A)}

\* A mutation of WavResult: the keep-list is honoured for WAV too.
WavResultKeeps(f, k) ==
    IF KeepGiven(k) /\ f.tags \cap k.tags # {}
    THEN File(TRUE, f.tags \cap k.tags)
    ELSE File(FALSE, {})

\* What ID3(input_file).delete() leaves of file f: the whole block is
\* gone; keep_tags (k) plays no part.
WavResult(f, k) == File(FALSE, {})

\* The outer handlers of remove_metadata: which one logs exception e.
OuterLog(e) ==
    IF e = "FileNotFoundError" THEN "error:file-not-found"
    ELSE IF e = "ValueError" THEN "error:value"
    ELSE "error:unexpected"

\* A mutation of Fail: main prints the error but does not call sys.exit(1).
FailExitsZero(e, logged) ==
    /\ pc' = "Error"
    /\ failed' = e
    /\ log' = log \cup logged \cup {OuterLog(e)}
    /\ stdout' = "Error: " \o e
    /\ exit_code' = 0

\* Exception e leaves remove_metadata: an outer handler logs and re-raises
\* it, main prints "Error: ..." and calls sys.exit(1).
Fail(e, logged) ==
    /\ pc' = "Error"
    /\ failed' = e
    /\ log' = log \cup logged \cup {OuterLog(e)}
    /\ stdout' = "Error: " \o e
    /\ exit_code' = 1

\* remove_metadata returned: main prints the completion line.
Succeed(logged) ==
    /\ pc' = "Done"
    /\ log' = log \cup logged
    /\ stdout' = "Metadata removal complete."
    /\ UNCHANGED <<failed, exit_code>>

\* main() is started with its command line.
Invoke ==
    /\ pc = "idle"
    /\ runs < MaxRuns
    /\ \E i \in Paths, o \in OutPaths \cup {NoPath}, k \in KeepArgs :
          /\ input_file' = i
          /\ args_output_file' = o
          /\ output_file' = o
          /\ keep_tags' = k
    /\ pc' = "Start"
    /\ snap' = disk
    /\ UNCHANGED <<disk, runs, prev, file_type, audio, tags_to_remove, idx,
                   exit_code, stdout, log, failed, opened, saved, attempted,
                   missing>>

\* The suffix tests; the else branch raises ValueError.
ClassifyStep ==
    /\ pc = "Start"
    /\ IF Classify(input_file) = "unsupported"
       THEN Fail("ValueError", {})
       ELSE /\ pc' = "Classified"
            /\ UNCHANGED <<exit_code, stdout, log, failed>>
    /\ UNCHANGED <<disk, runs, prev, args, file_type, audio, tags_to_remove,
                   idx, hist>>

\* MP3(...), FLAC(...), WAVE(...), then the output_file default.
Load ==
    /\ pc = "Classified"
    /\ opened' = opened \cup {input_file}
    /\ LET ft == Classify(input_file)
           f  == disk[input_file]
       IN  IF ~f.exists
           THEN /\ Fail("FileNotFoundError", {})
                /\ UNCHANGED <<file_type, audio, output_file>>
           ELSE IF NoHeaderSkip(ft, f)
           THEN /\ Succeed({"warning:no-header"})
                /\ UNCHANGED <<file_type, audio, output_file>>
           ELSE /\ file_type' = ft
                /\ audio' = f.tags
                /\ output_file' = DefaultOutput(output_file, input_file)
                /\ pc' = "Loaded"
                /\ UNCHANGED <<exit_code, stdout, log, failed>>
    /\ UNCHANGED <<disk, runs, prev, args_output_file, input_file, keep_tags,
                   tags_to_remove, idx, snap, saved, attempted, missing>>

\* The list comprehension over audio.keys() (MP3 and FLAC branches).
Filter ==
    /\ pc = "Loaded"
    /\ file_type \in {"mp3", "flac"}
    /\ \E ks \in Enumerations(audio) :
          tags_to_remove' = TagsToRemove(ks, keep_tags)
    /\ idx' = 1
    /\ pc' = IF tags_to_remove' = <<>> THEN "Mutated" ELSE "Filtered"
    /\ UNCHANGED <<disk, runs, prev, args, file_type, audio, exit_code,
                   stdout, log, failed, hist>>

\* The loop moves to its next tag, or ends.
NextTag ==
    /\ idx' = idx + 1
    /\ pc' = IF idx + 1 > Len(tags_to_remove) THEN "Mutated" ELSE "Filtered"

\* "del audio[tag]" for a key the container holds.
DeleteTag ==
    /\ pc = "Filtered"
    /\ tags_to_remove[idx] \in audio
    /\ audio' = audio \ {tags_to_remove[idx]}
    /\ attempted' = Append(attempted, tags_to_remove[idx])
    /\ NextTag
    /\ UNCHANGED <<disk, runs, prev, args, file_type, tags_to_remove,
                   exit_code, stdout, log, failed, snap, opened, saved,
                   missing>>

\* "del audio[tag]" for a key the container no longer holds: KeyError.
DeleteMissing ==
    /\ pc = "Filtered"
    /\ tags_to_remove[idx] \notin audio
    /\ attempted' = Append(attempted, tags_to_remove[idx])
    /\ missing' = missing \cup {tags_to_remove[idx]}
    /\ IF Raises("KeyError")
       THEN /\ Fail("KeyError", {})
            /\ UNCHANGED idx
       ELSE /\ NextTag
            /\ log' = log \cup {"warning:key-missing"}
            /\ UNCHANGED <<exit_code, stdout, failed>>
    /\ UNCHANGED <<disk, runs, prev, args, file_type, audio, tags_to_remove,
                   snap, opened, saved>>

\* "del audio[tag]" fails with any other exception.
DeleteError ==
    /\ pc = "Filtered"
    /\ attempted' = Append(attempted, tags_to_remove[idx])
    /\ IF Raises("DeleteError")
       THEN /\ Fail("DeleteError", {"error:delete"})
            /\ UNCHANGED idx
       ELSE /\ NextTag
            /\ log' = log \cup {"error:delete"}
            /\ UNCHANGED <<exit_code, stdout, failed>>
    /\ UNCHANGED <<disk, runs, prev, args, file_type, audio, tags_to_remove,
                   snap, opened, saved, missing>>

\* The WAV branch: ID3(input_file), then delete() in place.  A file without
\* ID3 block raises ID3NoHeaderError, which is only logged; the delete, a
\* write to the file, may fail, and that failure is re-raised.
WavRemove ==
    /\ pc = "Loaded"
    /\ file_type = "wav"
    /\ opened' = opened \cup {input_file}
    /\ \/ /\ disk[input_file].hdr
          /\ disk' = [disk EXCEPT ![input_file] = WavResult(@, keep_tags)]
          /\ log' = log \cup {"info:id3-removed"}
          /\ pc' = "Mutated"
          /\ UNCHANGED <<exit_code, stdout, failed>>
       \/ /\ ~disk[input_file].hdr
          /\ log' = log \cup {"info:no-id3"}
          /\ pc' = "Mutated"
          /\ UNCHANGED <<disk, exit_code, stdout, failed>>
       \/ /\ disk[input_file].hdr
          /\ Fail("WavError", {"error:wav"})
          /\ UNCHANGED disk
    /\ UNCHANGED <<runs, prev, args, file_type, audio, tags_to_remove, idx,
                   snap, saved, attempted, missing>>

\* "audio.save(output_file)" for MP3 and FLAC; it may fail.
Save ==
    /\ pc = "Mutated"
    /\ SaveNeeded(file_type)
    /\ saved' = Append(saved, output_file)
    /\ \/ /\ \E w \in Written(audio) :
                disk' = [disk EXCEPT ![output_file] = w]
          /\ log' = log \cup {"info:saved"}
          /\ pc' = "Persisted"
          /\ UNCHANGED <<exit_code, stdout, failed>>
       \/ /\ Fail("SaveError", {"error:save"})
          /\ UNCHANGED disk
    /\ UNCHANGED <<runs, prev, args, file_type, audio, tags_to_remove, idx,
                   snap, opened, attempted, missing>>

\* The else branch of the save: WAV only logs.
WavNoSave ==
    /\ pc = "Mutated"
    /\ ~SaveNeeded(file_type)
    /\ log' = log \cup {"info:wav-done"}
    /\ pc' = "Persisted"
    /\ UNCHANGED <<disk, runs, prev, args, file_type, audio, tags_to_remove,
                   idx, exit_code, stdout, failed, hist>>

\* remove_metadata returns to main, which prints the completion line.
Complete ==
    /\ pc = "Persisted"
    /\ Succeed({})
    /\ UNCHANGED <<disk, runs, prev, args, file_type, audio, tags_to_remove,
                   idx, hist>>

\* The path that holds the outcome of the invocation.
ResultPath ==
    IF file_type = "none" \/ file_type = "wav" THEN input_file ELSE output_file

\* The process ends; the disk stays for the next invocation.
Exit ==
    /\ pc \in {"Done", "Error"}
    /\ pc' = "idle"
    /\ runs' = runs + 1
    /\ prev' = IF pc = "Done" /\ ~KeepGiven(keep_tags)
               THEN [ok |-> TRUE, res |-> ResultPath]
               ELSE NoPrev
    /\ args_output_file' = NoPath
    /\ input_file' = NoPath /\ output_file' = NoPath /\ keep_tags' = KeepNone
    /\ file_type' = "none"
    /\ audio' = {}
    /\ tags_to_remove' = <<>>
    /\ idx' = 1
    /\ exit_code' = 0
    /\ stdout' = "" /\ log' = {} /\ failed' = "none"
    /\ snap' = disk
    /\ opened' = {} /\ saved' = <<>> /\ attempted' = <<>> /\ missing' = {}
    /\ UNCHANGED disk

\* The steps of one invocation.
Step ==
    \/ ClassifyStep
    \/ Load
    \/ Filter
    \/ DeleteTag
    \/ DeleteMissing
    \/ DeleteError
    \/ WavRemove
    \/ Save
    \/ WavNoSave
    \/ Complete

Next == Invoke \/ Step \/ Exit

Spec == Init /\ [][Next]_vars

\* One invocation from every initial disk.  The process is single-threaded
\* and synchronous: once started it keeps taking its next step until it
\* ends.
FirstRun == Invoke /\ runs = 0
LiveNext == FirstRun \/ Step \/ Exit
LiveSpec == Init /\ [][LiveNext]_vars /\ WF_vars(Step)

\* ------------------------------------------------------------ type check
TypeOK ==
    /\ disk \in [Paths -> Files \cup {NoFile}]
    /\ runs \in 0..MaxRuns
    /\ pc \in {"idle", "Start", "Classified", "Loaded", "Filtered", "Mutated",
               "Persisted", "Done", "Error"}
    /\ input_file \in Paths \cup {NoPath}
    /\ output_file \in Paths \cup {NoPath}
    /\ keep_tags \in KeepArgs
    /\ file_type \in {"none", "mp3", "flac", "wav"}
    /\ audio \subseteq Keys
    /\ exit_code \in {0, 1}

\* ---------------------------------------------------------------- claims
InRun == pc # "idle"
Terminal == pc \in {"Done", "Error"}

\* Suffix tests written out from the claims' words, not through Classify,
\* and tabulated over the paths.
HasSuffix(path, suf) == EndsWith(Lower(path), suf)
Suffixes ==
    [p \in Paths \cup {NoPath} |->
        {suf \in {SuffixMp3, SuffixFlac, SuffixWav} : HasSuffix(p, suf)}]
IsMp3(path)  == Suffixes[path] = {SuffixMp3}
IsFlac(path) == Suffixes[path] = {SuffixFlac}
IsWav(path)  == Suffixes[path] = {SuffixWav}
Unsupported(path) == Suffixes[path] = {}

\* The key set T the container loaded with, and the keep-list K as a set.
LoadedKeys == snap[input_file].tags
KeepSet == IF keep_tags.some THEN keep_tags.tags ELSE {}

\* Failures of library calls that have nothing to do with the arguments.
LibraryFaults == {"DeleteError", "SaveError", "WavError"}

\* C1: for MP3/FLAC, a run that completes without error saves a container
\* whose key set is exactly T \cap K (empty without a keep-list), and the
\* container never holds a key outside T.
C1_SavedKeysAreKeptKeys ==
    /\ (InRun /\ file_type \in {"mp3", "flac"}) => audio \subseteq LoadedKeys
    /\ (pc = "Done" /\ file_type \in {"mp3", "flac"}) =>
          /\ saved = <<output_file>>
          /\ disk[output_file].exists
          /\ disk[output_file].tags = LoadedKeys \cap KeepSet

\* A completed MP3/FLAC run with a keep-list that keeps one tag of two.
C1_Witness ==
    /\ pc = "Done"
    /\ file_type \in {"mp3", "flac"}
    /\ keep_tags.some
    /\ disk[output_file].tags # {}
    /\ disk[output_file].tags # LoadedKeys

C3_Mp3NoHeaderUntouched ==
    (InRun /\ IsMp3(input_file) /\ snap[input_file].exists
        /\ ~snap[input_file].hdr) =>
       /\ disk = snap
       /\ saved = <<>>
       /\ attempted = <<>>
       /\ failed = "none"
       /\ exit_code = 0
       /\ Terminal => pc = "Done" /\ "warning:no-header" \in log

\* Such a run, given an explicit output path, has ended.
C3_Witness ==
    /\ pc = "Done"
    /\ IsMp3(input_file)
    /\ ~snap[input_file].hdr
    /\ args_output_file \notin {NoPath, input_file}
    /\ "warning:no-header" \in log

\* C4: after a completed run on a WAV file with an ID3 block the block is
\* gone whatever the keep-list; a WAV file without an ID3 block is left
\* unchanged and the run raises nothing.
C4_WavId3RemovedWholesale ==
    /\ (pc = "Done" /\ IsWav(input_file) /\ snap[input_file].hdr) =>
          disk[input_file] = File(FALSE, {})
    /\ (InRun /\ IsWav(input_file) /\ snap[input_file].exists
          /\ ~snap[input_file].hdr) =>
          /\ disk = snap
          /\ failed = "none"
          /\ Terminal => pc = "Done" /\ exit_code = 0

\* A completed WAV run whose keep-list names a tag of the ID3 block.
C4_Witness ==
    /\ pc = "Done"
    /\ IsWav(input_file)
    /\ snap[input_file].hdr
    /\ keep_tags.some
    /\ keep_tags.tags \cap snap[input_file].tags # {}

\* C5: for MP3/FLAC with an output path other than the input path the
\* container is saved to the output path only and the input file is left
\* as it was; without an output path it is saved to the input path.
C5_SavedToOutputOnly ==
    (InRun /\ (IsMp3(input_file) \/ IsFlac(input_file))) =>
       /\ args_output_file \notin {NoPath, input_file} =>
             /\ disk[input_file] = snap[input_file]
             /\ \A p \in Paths \ {args_output_file} : disk[p] = snap[p]
             /\ pc = "Done" /\ file_type # "none" =>
                   /\ saved = <<args_output_file>>
                   /\ disk[args_output_file] \in Written(audio)
       /\ args_output_file = NoPath =>
             /\ \A p \in Paths \ {input_file} : disk[p] = snap[p]
             /\ pc = "Done" /\ file_type # "none" =>
                   /\ saved = <<input_file>>
                   /\ disk[input_file] \in Written(audio)

\* A completed FLAC run that wrote a changed container to another path.
C5_Witness ==
    /\ pc = "Done"
    /\ IsFlac(input_file)
    /\ args_output_file \notin {NoPath, input_file}
    /\ snap[input_file].tags # {}
    /\ disk[args_output_file] # snap[args_output_file]
    /\ disk[args_output_file] # disk[input_file]

\* C6: for WAV, save is never called, no path but the input path changes,
\* and a removed ID3 block is removed from the input file itself, whatever
\* the output path.
C6_WavIgnoresOutput ==
    (InRun /\ IsWav(input_file)) =>
       /\ saved = <<>>
       /\ \A p \in Paths \ {input_file} : disk[p] = snap[p]
       /\ "info:id3-removed" \in log =>
             disk[input_file] # snap[input_file] /\ ~disk[input_file].hdr

\* A completed WAV run with an output path that removed an ID3 block.
C6_Witness ==
    /\ pc = "Done"
    /\ IsWav(input_file)
    /\ args_output_file # NoPath
    /\ "info:id3-removed" \in log

\* C7: a run on a path with none of the three suffixes (compared without
\* case) opens, changes and saves no file and ends with exit code 1.
C7_UnsupportedSuffix ==
    (InRun /\ Unsupported(input_file)) =>
       /\ pc \in {"Start", "Error"}
       /\ opened = {}
       /\ saved = <<>>
       /\ disk = snap
       /\ Terminal => pc = "Error" /\ exit_code = 1 /\ failed = "ValueError"

\* A run on the .ogg path that exists on disk has ended.
C7_Witness ==
    /\ pc = "Error"
    /\ input_file = PathOgg
    /\ disk[input_file].exists
    /\ args_output_file # NoPath

\* C8: once a deletion has failed with an error other than KeyError the
\* run is over: the failing tag is the last one attempted, save is never
\* called, no file has changed, and the exit code is 1.
C8_DeleteErrorAborts ==
    "error:delete" \in log =>
       /\ pc = "Error"
       /\ failed = "DeleteError"
       /\ exit_code = 1
       /\ file_type \in {"mp3", "flac"}
       /\ attempted = SubSeq(tags_to_remove, 1, idx)
       /\ saved = <<>>
       /\ disk = snap

\* A deletion failed after one had succeeded and before the last tag.
C8_Witness ==
    /\ "error:delete" \in log
    /\ idx > 1
    /\ idx < Len(tags_to_remove)
    /\ audio # LoadedKeys

\* C9: a KeyError in the delete loop never ends the run: it is logged as a
\* warning, every tag of the delete set is still attempted and gone from
\* the container, the save is performed and the exit code is 0.
C9_KeyMissingRecovered ==
    /\ failed # "KeyError"
    /\ missing # {} => "warning:key-missing" \in log
    /\ (missing # {} /\ pc \in {"Mutated", "Persisted", "Done"}) =>
          /\ attempted = tags_to_remove
          /\ audio \cap Range(tags_to_remove) = {}
    /\ (missing # {} /\ Terminal /\ failed \notin LibraryFaults) =>
          /\ pc = "Done"
          /\ exit_code = 0
          /\ saved = <<output_file>>
          /\ disk[output_file].tags \cap Range(tags_to_remove) = {}

\* A completed run in which a KeyError was followed by a deletion.
C9_Witness ==
    /\ pc = "Done"
    /\ missing # {}
    /\ tags_to_remove[Len(tags_to_remove)] \notin missing
    /\ saved = <<output_file>>

\* The order of the steps of a run.
Rank(p) ==
    CASE p = "Start" -> 1
      [] p = "Classified" -> 2
      [] p = "Loaded" -> 3
      [] p = "Filtered" -> 4
      [] p = "Mutated" -> 5
      [] p = "Persisted" -> 6
      [] p = "Done" -> 7
      [] p = "Error" -> 7
      [] OTHER -> 0

ErrorLogs == {"error:file-not-found", "error:value", "error:unexpected"}

\* The two terminal states and what they show.
C10_Terminals ==
    /\ pc = "Done" =>
          /\ exit_code = 0
          /\ stdout = "Metadata removal complete."
          /\ failed = "none"
          /\ log \cap ErrorLogs = {}
    /\ pc = "Error" =>
          /\ exit_code = 1
          /\ stdout = "Error: " \o failed
          /\ failed # "none"
          /\ log \cap ErrorLogs # {}
    /\ (failed # "none" \/ exit_code # 0 \/ log \cap ErrorLogs # {}) =>
          pc = "Error"

\* A step of a run moves forward in the order of the steps (the delete
\* loop from one tag to the next), a failing step goes to Error at once,
\* and Error is left only by the end of the process, nothing else changing.
C10_Order ==
    /\ (InRun /\ pc' # "idle") =>
          \/ Rank(pc') > Rank(pc)
          \/ pc' = pc /\ pc = "Filtered" /\ idx' = idx + 1
    /\ (failed = "none" /\ failed' # "none") =>
          pc' = "Error" /\ disk' = disk /\ saved' \in {saved, Append(saved, output_file)}
    /\ Terminal => pc' = "idle" /\ disk' = disk

\* C10: every run ends in Done (exit 0, completion line) or Error (exit 1,
\* error line); a failure goes straight to Error, with no retry and no
\* later step; Done is reached only without failure; the steps keep the
\* order classify, load, filter, delete, persist.
C10_RunEndsDoneOrError ==
    /\ []C10_Terminals
    /\ [][C10_Order]_vars
    /\ (pc = "Start") ~> Terminal

\* A run that failed in its last step, the save, after deleting tags.
C10_Witness ==
    /\ pc = "Error"
    /\ failed = "SaveError"
    /\ attempted # <<>>

====
